---- MODULE Spec2Model ----
(***************************************************************************)
(* Archive transfer of the gbox Python SDK (gbox/models/boxes.py):         *)
(* Box.head_archive, Box.get_archive, Box.put_archive and Box.copy, run by *)
(* one synchronous caller against the remote box API and the local         *)
(* filesystem.                                                             *)
(*                                                                         *)
(* Paths are sequences of tokens ("/", "box:", names), so that basename,   *)
(* dirname, prefix stripping and suffix tests are computed, not assumed.   *)
(* A tar archive is a sequence of byte tokens: a header token per entry    *)
(* followed by its data tokens, optionally preceded by a gzip token.       *)
(* The local filesystem is taken to be writable: creating a directory or   *)
(* opening a file for writing does not fail.                               *)
(*                                                                         *)
(* The methods of the Box that call the box API (reload, start, stop,      *)
(* delete, run, reclaim), File.reload, FileManager.get / exists and        *)
(* BoxManager.get are the actions of a second specification, ObjectSpec,   *)
(* over the same state.                                                    *)
(***************************************************************************)
EXTENDS Integers, Sequences, FiniteSets, TLC

\* ---------------------------------------------------------------- bounds
\* longest file content, in bytes
MaxLen == 3
\* most entries in an archive the remote serves
MaxEntries == 3
\* most invocations of the public methods in one behaviour
MaxCalls == 2
\* io.DEFAULT_BUFFER_SIZE (8192), scaled down to keep several chunks per file
DEFAULT_BUFFER_SIZE == 2

\* ---------------------------------------------------------------- values
\* Python's None, as a path argument and as a returned stream
None == <<"<None>">>
NoStream == <<[b |-> "None", name |-> <<>>, type |-> "", size |-> 0, v |-> 0]>>

Ramp(n) == [i \in 1..n |-> i % 2]

\* what a local path holds
Absent == [kind |-> "absent", content |-> <<>>]
Dir == [kind |-> "dir", content |-> <<>>]
File(c) == [kind |-> "file", content |-> c]

\* ---------------------------------------------------------------- os.path
RECURSIVE LastSlash(_, _)
LastSlash(p, i) ==
  IF i = 0 THEN 0 ELSE IF p[i] = "/" THEN i ELSE LastSlash(p, i - 1)

RECURSIVE rstripSlash(_)
rstripSlash(p) ==
  IF Len(p) > 0 /\ p[Len(p)] = "/" THEN rstripSlash(SubSeq(p, 1, Len(p) - 1)) ELSE p

basename(p) == SubSeq(p, LastSlash(p, Len(p)) + 1, Len(p))

dirname(p) ==
  LET head == SubSeq(p, 1, LastSlash(p, Len(p)))
  IN IF head # <<>> /\ (\E i \in 1..Len(head) : head[i] # "/")
       THEN rstripSlash(head) ELSE head

endswith(s, suffix) ==
  /\ Len(suffix) <= Len(s)
  /\ SubSeq(s, Len(s) - Len(suffix) + 1, Len(s)) = suffix

\* the local paths the model distinguishes
P_root == <<"/">>
P_tmp == <<"/", "tmp">>
P_b == <<"/", "tmp", "/", "b.txt">>
P_new == <<"/", "new">>
P_out == <<"/", "new", "/", "out.txt">>
P_nope == <<"/", "tmp", "/", "nope.txt">>
P_rel == <<"another_local_file.txt">>
\* a marked path without directory part: as a local path, the file "box:b.txt"
B_rel == <<"box:", "b.txt">>

LocalUniverse == {P_root, P_tmp, P_b, P_new, P_out, P_nope, B_rel}

exists(fsys, p) == p \in LocalUniverse /\ fsys[p].kind # "absent"
isdir(fsys, p) == p \in LocalUniverse /\ fsys[p].kind = "dir"

RECURSIVE IsAncestorOrSelf(_, _)
IsAncestorOrSelf(q, d) ==
  \/ q = d
  \/ /\ dirname(d) # d
     /\ dirname(d) # <<>>
     /\ IsAncestorOrSelf(q, dirname(d))

makedirs(fsys, d) ==
  [q \in LocalUniverse |->
     IF IsAncestorOrSelf(q, d) /\ fsys[q].kind = "absent" THEN Dir ELSE fsys[q]]

\* an open that keeps what the file held (mode "ab")
open_ab(fsys, p) == IF fsys[p].kind = "file" THEN fsys ELSE [fsys EXCEPT ![p] = File(<<>>)]

\* open(local_path, "wb"): the file exists and is empty afterwards
open_wb(fsys, p) == [fsys EXCEPT ![p] = File(<<>>)]

\* f_out.write(chunk)
write(fsys, p, chunk) == [fsys EXCEPT ![p] = File(fsys[p].content \o chunk)]

\* ---------------------------------------------------------------- tarfile
Entry(n, t, c) == [name |-> n, type |-> t, content |-> c]

\* byte tokens of an archive: a header, a data byte, the end-of-archive blocks,
\* or the gzip magic
Tok(b, n, t, sz, v) == [b |-> b, name |-> n, type |-> t, size |-> sz, v |-> v]
Header(e) == Tok("hdr", e.name, e.type, Len(e.content), 0)
Data(c) == [i \in 1..Len(c) |-> Tok("data", <<>>, "", 0, c[i])]
GzMagic == Tok("gz", <<>>, "", 0, 0)
EndOfArchive == Tok("end", <<>>, "", 0, 0)

RECURSIVE TarBytes(_)
TarBytes(entries) ==
  IF entries = <<>> THEN <<EndOfArchive>>
  ELSE <<Header(Head(entries))>> \o Data(Head(entries).content) \o TarBytes(Tail(entries))

Gzip(bs) == <<GzMagic>> \o bs

\* the members of a plain tar byte sequence from position i on; reading stops
\* at the end-of-archive blocks, and empty input is no archive
RECURSIVE ParseFrom(_, _)
ParseFrom(bs, i) ==
  IF i > Len(bs) THEN [ok |-> i > 1, members |-> <<>>]
  ELSE IF bs[i].b = "end" THEN [ok |-> TRUE, members |-> <<>>]
  ELSE IF bs[i].b # "hdr" THEN [ok |-> FALSE, members |-> <<>>]
  ELSE LET h == bs[i]
           last == i + h.size
       IN IF last > Len(bs) \/ (\E j \in (i + 1)..last : bs[j].b # "data")
            THEN [ok |-> FALSE, members |-> <<>>]
            ELSE LET rest == ParseFrom(bs, last + 1)
                     m == Entry(h.name, h.type, [j \in 1..h.size |-> bs[i + j].v])
                 IN [ok |-> rest.ok, members |-> <<m>> \o rest.members]

\* tarfile.open(fileobj=..., mode="r:*") followed by getmembers()
TarOpen(bs) ==
  IF Len(bs) > 0 /\ bs[1].b = "gz" THEN ParseFrom(Tail(bs), 1) ELSE ParseFrom(bs, 1)

isfile_m(m) == m.type = "file"
isdir_m(m) == m.type = "dir"

\* ---------------------------------------------------------------- errors
Err(t, why) == [type |-> t, why |-> why]
NoErr == Err("", "")
\* what the remote API raises
RemoteErrors == {Err("NotFound", "remote"), Err("APIError", "remote")}

\* the result of an invocation of a public method
NoOutcome == [kind |-> "none", err |-> NoErr, stream |-> NoStream, stats |-> ""]
Raise(e) == [kind |-> "raise", err |-> e, stream |-> NoStream, stats |-> ""]
Return(stream, st) == [kind |-> "return", err |-> NoErr, stream |-> stream, stats |-> st]

\* a remote call as the mocked box_api would record it
ApiCall(api, path, data, err, st) ==
  [api |-> api, path |-> path, data |-> data, err |-> err, stats |-> st]

\* ---------------------------------------------------------------- the remote
\* the header dictionaries head_archive may return
Stats == {"stat-file-42", "stat-directory"}

\* remote paths the caller asks for
R_dir == <<"/", "dir">>
R_xb == <<"/", "x", "/", "b.txt">>
R_x == <<"/", "x">>
RemotePaths == {R_dir, R_xb}
\* paths written with the remote-path marker
B_x == <<"box:", "/", "x">>
B_xb == <<"box:", "/", "x", "/", "b.txt">>

N_dir == <<"dir">>
N_b == <<"b.txt">>
N_dir_b == <<"dir", "/", "b.txt">>
N_child == <<"dir", "/", "child.txt">>

\* the entries an archive served by the remote is made of
EntryPool ==
  { Entry(N_dir, "dir", <<>>),
    Entry(N_b, "sym", <<>>),
    Entry(N_b, "file", Ramp(MaxLen)),
    Entry(N_dir_b, "file", <<>>),
    Entry(N_child, "file", Ramp(1)) }

\* the entries an archive's members after the second are made of
TailPool == {Entry(N_child, "file", Ramp(1)), Entry(N_b, "file", Ramp(MaxLen))}

\* the member lists of served archives: any two entries, then entries of TailPool
EntryLists ==
  {es \in UNION {[1..n -> EntryPool] : n \in 0..MaxEntries} :
     \A i \in 3..Len(es) : es[i] \in TailPool}

Garbage == Data(<<1>>)

\* the byte sequences the remote data fetch may return, whatever the box holds
ArbitraryArchives ==
  {TarBytes(es) : es \in EntryLists}
    \cup {Gzip(TarBytes(es)) : es \in [1..1 -> EntryPool]}
    \cup {Garbage, <<>>}

\* ---------------------------------------------------------------- objects
\* a key a response does not have
Missing == "<missing>"

\* box data: a raw response dictionary, or a validated BoxBase
BoxData(id, status, image, labels) ==
  [id |-> id, status |-> status, image |-> image, labels |-> labels]

\* BoxBase.model_validate(raw): id, status and image are required, and labels
\* that are absent or null become the empty dictionary
model_validate(raw) ==
  IF Missing \in {raw.id, raw.status, raw.image}
    THEN [ok |-> FALSE, value |-> raw]
    ELSE [ok |-> TRUE,
          value |-> [raw EXCEPT !.labels = IF @ \in {Missing, "None"} THEN "{}" ELSE @]]

\* file metadata: the dictionary head returns
FileStat(name, size, type) == [name |-> name, size |-> size, type |-> type]
EmptyDict == FileStat(Missing, Missing, Missing)
NoneStat == FileStat("<None>", "<None>", "<None>")

\* bool(d) of what head returned
truthy(d) == d \notin {NoneStat, EmptyDict}

\* File.__init__: self.path = path, self.attrs = attrs or {}
File_init(path, a) == [path |-> path, attrs |-> IF truthy(a) THEN a ELSE EmptyDict]

\* the paths given to the file manager
F_abs == <<"/", "path", "/", "to", "/", "file.txt">>
F_rel == <<"path", "/", "to", "/", "file.txt">>

\* ---------------------------------------------------------------- state
VARIABLES
  pc,              \* where the caller is: "idle" or a position in a method
  args,            \* the arguments of the current (or last) invocation
  calls,           \* the calls to the remote (and to the Box constructor) of the
                   \* current (or last) invocation, in order
  outcome,         \* how the last invocation ended
  ncalls,          \* invocations started so far
  fs,              \* the local filesystem
  fs0,             \* the local filesystem when the invocation started
  box_fs,          \* the files of the remote box, by path
  last_put,        \* the last upload of a local file the remote extracted
  stats,           \* get_archive: the result of head_archive
  tar_data_bytes,  \* get_archive: the fetched archive
  target_member,   \* get_archive: the member chosen for extraction
  extracted_file,  \* get_archive: what is left to read of the member
  api_path,        \* put_archive: the path sent to the remote
  archive_data,    \* put_archive: the archive sent to the remote
  copy_args,       \* the copy the invocation was made by, if any
  attrs,           \* Box.attrs of the Box the caller holds
  attrs0,          \* Box.attrs when the invocation started
  file,            \* the File the caller holds: its path and attrs
  file0            \* that File when the invocation started

vars ==
  <<pc, args, calls, outcome, ncalls, fs, fs0, box_fs, last_put, stats,
    tar_data_bytes, target_member, extracted_file, api_path, archive_data,
    copy_args, attrs, attrs0, file, file0>>

ga_locals == <<stats, tar_data_bytes, target_member, extracted_file>>
pa_locals == <<api_path, archive_data>>

NoMember == Entry(<<>>, "", <<>>)
NoData == [type |-> "none", bytes |-> <<>>, path |-> <<>>]
DataBytes(bs) == [type |-> "bytes", bytes |-> bs, path |-> <<>>]
DataReader(bs) == [type |-> "BufferedReader", bytes |-> bs, path |-> <<>>]
DataStr(p) == [type |-> "str", bytes |-> <<>>, path |-> p]
DataOther(t) == [type |-> t, bytes |-> <<>>, path |-> <<>>]
NoPut == [dir |-> <<>>, src |-> None, content |-> <<>>]
NoCopy == [source |-> None, target |-> None]
CopyArgs(source, target) == [source |-> source, target |-> target]

Args(op, path, local_path, data) ==
  [op |-> op, path |-> path, local_path |-> local_path, data |-> data]

EmptyBox == [q \in {} |-> <<>>]

Init ==
  /\ pc = "idle"
  /\ args = Args("", <<>>, None, NoData)
  /\ calls = <<>>
  /\ outcome = NoOutcome
  /\ ncalls = 0
  /\ fs = [q \in LocalUniverse |->
             IF q \in {P_root, P_tmp} THEN Dir
             ELSE IF q = P_b THEN File(Ramp(MaxLen)) ELSE Absent]
  /\ fs0 = fs
  /\ box_fs = EmptyBox
  /\ last_put = NoPut
  /\ stats = ""
  /\ tar_data_bytes = <<>>
  /\ target_member = NoMember
  /\ extracted_file = <<>>
  /\ api_path = <<>>
  /\ archive_data = <<>>
  /\ copy_args = NoCopy
  /\ attrs = BoxData("box-1", "stopped", "ubuntu:latest", "name=test-box")
  /\ attrs0 = attrs
  /\ file = File_init(F_abs, FileStat("file.txt", "100", "file"))
  /\ file0 = file

\* the start of an invocation: an empty call record
Enter(op, path, local_path, data) ==
  /\ pc = "idle"
  /\ ncalls < MaxCalls
  /\ ncalls' = ncalls + 1
  /\ args' = Args(op, path, local_path, data)
  /\ calls' = <<>>
  /\ fs0' = fs
  /\ attrs0' = attrs
  /\ file0' = file

\* ---------------------------------------------------------------- the remote
JoinRemote(dir, name) ==
  IF dir # <<>> /\ dir[Len(dir)] = "/" THEN dir \o name ELSE dir \o <<"/">> \o name

RECURSIVE PutMembers(_, _, _)
PutMembers(bfs, dir, members) ==
  IF members = <<>> THEN bfs
  ELSE LET m == Head(members)
           q == JoinRemote(dir, m.name)
           nxt == IF isfile_m(m)
                    THEN [r \in DOMAIN bfs \cup {q} |-> IF r = q THEN m.content ELSE bfs[r]]
                    ELSE bfs
       IN PutMembers(nxt, dir, Tail(members))

\* the box after the remote has extracted an archive into dir
RemoteExtract(bfs, dir, bs) ==
  IF TarOpen(bs).ok THEN PutMembers(bfs, dir, TarOpen(bs).members) ELSE bfs

\* the archives by which the remote serves a file of the box back: one entry,
\* named by the file's basename, plain or compressed
FaithfulArchives(bfs, path) ==
  IF path \in DOMAIN bfs
    THEN LET t == TarBytes(<<Entry(basename(path), "file", bfs[path])>>)
         IN {t, Gzip(t)}
    ELSE {}

Served(bfs, path) == ArbitraryArchives \cup FaithfulArchives(bfs, path)

\* ---------------------------------------------------------------- head_archive
\* the path head_archive is asked about
HeadPaths == {R_xb}

\* a head_archive that takes the status of the box from the answer
head_archive_call_keeps_status(path) ==
  /\ pc = "idle"
  /\ ncalls < MaxCalls
  /\ ncalls' = ncalls + 1
  /\ args' = Args("head_archive", path, None, NoData)
  /\ copy_args' = NoCopy
  /\ fs0' = fs
  /\ attrs0' = attrs
  /\ file0' = file
  /\ \/ \E st \in Stats :
          /\ calls' = <<ApiCall("head_archive", path, <<>>, NoErr, st)>>
          /\ outcome' = Return(NoStream, st)
          /\ attrs' = [attrs EXCEPT !.status = st]
     \/ \E e \in RemoteErrors :
          /\ calls' = <<ApiCall("head_archive", path, <<>>, e, "")>>
          /\ outcome' = Raise(e)
          /\ attrs' = attrs
  /\ UNCHANGED <<pc, fs, box_fs, last_put, file, ga_locals, pa_locals>>

\* Box.head_archive(path): return box_api.head_archive(self.id, path=path),
\* the whole method in one step
head_archive_call(path) ==
  /\ pc = "idle"
  /\ ncalls < MaxCalls
  /\ ncalls' = ncalls + 1
  /\ args' = Args("head_archive", path, None, NoData)
  /\ copy_args' = NoCopy
  /\ fs0' = fs
  /\ attrs0' = attrs
  /\ file0' = file
  /\ \/ \E st \in Stats :
          /\ calls' = <<ApiCall("head_archive", path, <<>>, NoErr, st)>>
          /\ outcome' = Return(NoStream, st)
     \/ \E e \in RemoteErrors :
          /\ calls' = <<ApiCall("head_archive", path, <<>>, e, "")>>
          /\ outcome' = Raise(e)
  /\ UNCHANGED <<pc, fs, box_fs, last_put, attrs, file, ga_locals, pa_locals>>

\* ---------------------------------------------------------------- get_archive
\* a pair check that forgets to compare the file's name
SingleFilePair_any_name(members, target_filename) ==
  /\ Len(members) = 2
  /\ isdir_m(members[1])
  /\ isfile_m(members[2])

SingleFilePair(members, target_filename) ==
  /\ Len(members) = 2
  /\ isdir_m(members[1])
  /\ isfile_m(members[2])
  /\ members[2].name = target_filename

\* a member-count check that lets every archive starting with a directory through
TooManyMembers_dir_first(members, target_filename) ==
  Len(members) > 1 /\ ~isdir_m(members[1])

TooManyMembers(members, target_filename) ==
  Len(members) > 1 /\ ~SingleFilePair(members, target_filename)

MemberMatches(member, members, target_filename) ==
  \/ /\ isfile_m(member)
     /\ \/ member.name = target_filename
        \/ endswith(member.name, <<"/">> \o target_filename)
  \/ /\ isfile_m(member)
     /\ Len(members) = 1
     /\ member.name = target_filename

\* the index of the first member the search loop stops at, 0 when it finds none
FindTargetMember(members, target_filename) ==
  LET hits == {i \in 1..Len(members) : MemberMatches(members[i], members, target_filename)}
  IN IF hits = {} THEN 0 ELSE CHOOSE i \in hits : \A j \in hits : i <= j

\* a fallback that never looks at the first member's type
NoTargetError_always_missing(members) ==
  Err("FileNotFoundError", "MemberNotFound")

NoTargetError(members) ==
  IF isdir_m(members[1])
    THEN Err("IsADirectoryError", "RemoteIsDirectory")
    ELSE Err("FileNotFoundError", "MemberNotFound")

\* the member to extract from the fetched archive, or the error raised instead
\* a selection without the test for an archive of no members
SelectMember_no_empty_check(path, bs) ==
  LET tar == TarOpen(bs)
      members == tar.members
      target_filename == basename(path)
      k == FindTargetMember(members, target_filename)
  IN IF ~tar.ok THEN [err |-> Err("TarError", "ReadError"), member |-> NoMember]
     ELSE IF TooManyMembers(members, target_filename)
       THEN [err |-> Err("TarError", "AmbiguousArchive"), member |-> NoMember]
     ELSE IF k = 0
       THEN [err |-> Err("FileNotFoundError", "MemberNotFound"), member |-> NoMember]
     ELSE [err |-> NoErr, member |-> members[k]]

SelectMember(path, bs) ==
  LET tar == TarOpen(bs)
      members == tar.members
      target_filename == basename(path)
      k == FindTargetMember(members, target_filename)
  IN IF ~tar.ok THEN [err |-> Err("TarError", "ReadError"), member |-> NoMember]
     ELSE IF members = <<>> THEN [err |-> Err("TarError", "EmptyArchive"), member |-> NoMember]
     ELSE IF TooManyMembers(members, target_filename)
       THEN [err |-> Err("TarError", "AmbiguousArchive"), member |-> NoMember]
     ELSE IF k = 0 THEN [err |-> NoTargetError(members), member |-> NoMember]
     ELSE [err |-> NoErr, member |-> members[k]]

\* extracted_file.read(n)
read(f, n) == SubSeq(f, 1, IF Len(f) < n THEN Len(f) ELSE n)
unread(f, n) == SubSeq(f, (IF Len(f) < n THEN Len(f) ELSE n) + 1, Len(f))

\* a get_archive that creates the local directory before it asks the remote
get_archive_call_mkdir_first(path, local_path) ==
  /\ Enter("get_archive", path, local_path, NoData)
  /\ pc' = "ga_head"
  /\ outcome' = NoOutcome
  /\ stats' = ""
  /\ tar_data_bytes' = <<>>
  /\ target_member' = NoMember
  /\ extracted_file' = <<>>
  /\ api_path' = <<>>
  /\ archive_data' = <<>>
  /\ fs' = IF local_path # None /\ dirname(local_path) # <<>>
             THEN makedirs(fs, dirname(local_path)) ELSE fs
  /\ UNCHANGED <<box_fs, last_put, attrs, file>>

get_archive_call(path, local_path) ==
  /\ Enter("get_archive", path, local_path, NoData)
  /\ pc' = "ga_head"
  /\ outcome' = NoOutcome
  /\ stats' = ""
  /\ tar_data_bytes' = <<>>
  /\ target_member' = NoMember
  /\ extracted_file' = <<>>
  /\ api_path' = <<>>
  /\ archive_data' = <<>>
  /\ UNCHANGED <<fs, box_fs, last_put, attrs, file>>

\* a head that is tried a second time when it has failed once
get_archive_head_retries ==
  /\ pc = "ga_head"
  /\ \/ \E st \in Stats :
          /\ calls' = Append(calls, ApiCall("head_archive", args.path, <<>>, NoErr, st))
          /\ stats' = st
          /\ pc' = "ga_fetch"
          /\ UNCHANGED outcome
     \/ \E e \in RemoteErrors :
          /\ calls' = Append(calls, ApiCall("head_archive", args.path, <<>>, e, ""))
          /\ IF calls = <<>>
               THEN outcome' = outcome /\ pc' = "ga_head"
               ELSE outcome' = Raise(e) /\ pc' = "idle"
          /\ UNCHANGED stats
  /\ UNCHANGED <<args, copy_args, attrs, attrs0, file, file0, ncalls, fs, fs0, box_fs, last_put, tar_data_bytes,
                 target_member, extracted_file, pa_locals>>

\* stats = self.head_archive(path)
get_archive_head ==
  /\ pc = "ga_head"
  /\ \/ \E st \in Stats :
          /\ calls' = Append(calls, ApiCall("head_archive", args.path, <<>>, NoErr, st))
          /\ stats' = st
          /\ pc' = "ga_fetch"
          /\ UNCHANGED outcome
     \/ \E e \in RemoteErrors :
          /\ calls' = Append(calls, ApiCall("head_archive", args.path, <<>>, e, ""))
          /\ outcome' = Raise(e)
          /\ pc' = "idle"
          /\ UNCHANGED stats
  /\ UNCHANGED <<args, copy_args, attrs, attrs0, file, file0, ncalls, fs, fs0, box_fs, last_put, tar_data_bytes,
                 target_member, extracted_file, pa_locals>>

\* a fetch that, without local_path, returns no stream with the stats
get_archive_fetch_returns_none ==
  /\ pc = "ga_fetch"
  /\ \/ \E bs \in Served(box_fs, args.path) :
          /\ calls' = Append(calls, ApiCall("get_archive", args.path, <<>>, NoErr, ""))
          /\ tar_data_bytes' = bs
          /\ IF args.local_path = None
               THEN outcome' = Return(NoStream, stats) /\ pc' = "idle"
               ELSE outcome' = outcome /\ pc' = "ga_extract"
     \/ \E e \in RemoteErrors :
          /\ calls' = Append(calls, ApiCall("get_archive", args.path, <<>>, e, ""))
          /\ outcome' = Raise(e)
          /\ pc' = "idle"
          /\ UNCHANGED tar_data_bytes
  /\ UNCHANGED <<args, copy_args, attrs, attrs0, file, file0, ncalls, fs, fs0, box_fs, last_put, stats,
                 target_member, extracted_file, pa_locals>>

\* tar_data_bytes = box_api.get_archive(id, path), and the return without local_path
get_archive_fetch ==
  /\ pc = "ga_fetch"
  /\ \/ \E bs \in Served(box_fs, args.path) :
          /\ calls' = Append(calls, ApiCall("get_archive", args.path, <<>>, NoErr, ""))
          /\ tar_data_bytes' = bs
          /\ IF args.local_path = None
               THEN outcome' = Return(bs, stats) /\ pc' = "idle"
               ELSE outcome' = outcome /\ pc' = "ga_extract"
     \/ \E e \in RemoteErrors :
          /\ calls' = Append(calls, ApiCall("get_archive", args.path, <<>>, e, ""))
          /\ outcome' = Raise(e)
          /\ pc' = "idle"
          /\ UNCHANGED tar_data_bytes
  /\ UNCHANGED <<args, copy_args, attrs, attrs0, file, file0, ncalls, fs, fs0, box_fs, last_put, stats,
                 target_member, extracted_file, pa_locals>>

\* an extraction that, finding no member, falls through to the final
\* "return None, stats" instead of raising
get_archive_extract_fallthrough ==
  /\ pc = "ga_extract"
  /\ LET local_dir == dirname(args.local_path)
         made == IF local_dir # <<>> THEN makedirs(fs, local_dir) ELSE fs
         sel == SelectMember(args.path, tar_data_bytes)
     IN IF sel.err # NoErr
          THEN /\ fs' = made
               /\ outcome' = IF sel.err.type = "FileNotFoundError"
                                THEN Return(NoStream, stats) ELSE Raise(sel.err)
               /\ pc' = "idle"
               /\ UNCHANGED <<target_member, extracted_file>>
          ELSE /\ fs' = open_wb(made, args.local_path)
               /\ target_member' = sel.member
               /\ extracted_file' = sel.member.content
               /\ pc' = "ga_write"
               /\ UNCHANGED outcome
  /\ UNCHANGED <<args, copy_args, attrs, attrs0, file, file0, calls, ncalls, fs0, box_fs, last_put, stats,
                 tar_data_bytes, pa_locals>>

\* makedirs, the analysis of the archive, and open(local_path, "wb")
get_archive_extract ==
  /\ pc = "ga_extract"
  /\ LET local_dir == dirname(args.local_path)
         made == IF local_dir # <<>> THEN makedirs(fs, local_dir) ELSE fs
         sel == SelectMember(args.path, tar_data_bytes)
     IN IF sel.err # NoErr
          THEN /\ fs' = made
               /\ outcome' = Raise(sel.err)
               /\ pc' = "idle"
               /\ UNCHANGED <<target_member, extracted_file>>
          ELSE /\ fs' = open_wb(made, args.local_path)
               /\ target_member' = sel.member
               /\ extracted_file' = sel.member.content
               /\ pc' = "ga_write"
               /\ UNCHANGED outcome
  /\ UNCHANGED <<args, copy_args, attrs, attrs0, file, file0, calls, ncalls, fs0, box_fs, last_put, stats,
                 tar_data_bytes, pa_locals>>

\* one turn of the copy loop, and the return after it
get_archive_write ==
  /\ pc = "ga_write"
  /\ LET chunk == read(extracted_file, DEFAULT_BUFFER_SIZE)
     IN IF chunk = <<>>
          THEN /\ outcome' = Return(NoStream, stats)
               /\ pc' = "idle"
               /\ UNCHANGED <<fs, extracted_file>>
          ELSE /\ fs' = write(fs, args.local_path, chunk)
               /\ extracted_file' = unread(extracted_file, DEFAULT_BUFFER_SIZE)
               /\ UNCHANGED <<pc, outcome>>
  /\ UNCHANGED <<args, copy_args, attrs, attrs0, file, file0, calls, ncalls, fs0, box_fs, last_put, stats,
                 tar_data_bytes, target_member, pa_locals>>

\* ---------------------------------------------------------------- put_archive
lower(tok) == IF tok = "BOX:" THEN "box:" ELSE tok

\* a path sent to the remote as it was given
StripBox_keep_marker(path) == path

\* api_path = path without a leading "box:"
StripBox(path) ==
  IF path # <<>> /\ lower(path[1]) = "box:" THEN Tail(path) ELSE path

\* a packer without arcname: the entry is named by the whole local path,
\* less its leading "/"
PackLocalFile_whole_path(fsys, p) ==
  Gzip(TarBytes(<<Entry(Tail(p), "file", fsys[p].content)>>))

\* a packer that reads one buffer of the file only
PackLocalFile_one_buffer(fsys, p) ==
  LET c == fsys[p].content
      n == IF Len(c) < DEFAULT_BUFFER_SIZE THEN Len(c) ELSE DEFAULT_BUFFER_SIZE
  IN <<GzMagic>> \o <<Header(Entry(basename(p), "file", SubSeq(c, 1, n)))>>
       \o Data(SubSeq(c, 1, n)) \o <<EndOfArchive>>

\* tarfile.open(mode="w:gz") with tar.add(data, arcname=os.path.basename(data))
PackLocalFile(fsys, p) ==
  Gzip(TarBytes(<<Entry(basename(p), "file", fsys[p].content)>>))

\* checks that leave the directory test out: tar.add then packs the directory
LocalPathError_no_dir_check(fsys, p) ==
  IF ~exists(fsys, p) THEN Err("FileNotFoundError", "LocalPathMissing") ELSE NoErr

\* checks that leave the existence test out: the failure of tar.add on the
\* missing path is then re-raised as TarError
LocalPathError_no_exists_check(fsys, p) ==
  IF isdir(fsys, p) THEN Err("IsADirectoryError", "IsADirectory")
  ELSE IF ~exists(fsys, p) THEN Err("TarError", "Failed to create tar archive")
  ELSE NoErr

\* the checks of a string data argument before the archive is built
LocalPathError(fsys, p) ==
  IF ~exists(fsys, p) THEN Err("FileNotFoundError", "LocalPathMissing")
  ELSE IF isdir(fsys, p) THEN Err("IsADirectoryError", "IsADirectory")
  ELSE NoErr

\* a build that passes a reader on without reading it
BuildArchive_reader_not_read(fsys, data) ==
  IF data.type = "bytes" THEN [err |-> NoErr, archive_data |-> data.bytes]
  ELSE IF data.type = "BufferedReader" THEN [err |-> NoErr, archive_data |-> <<>>]
  ELSE IF data.type = "str"
    THEN IF LocalPathError(fsys, data.path) # NoErr
           THEN [err |-> LocalPathError(fsys, data.path), archive_data |-> <<>>]
           ELSE [err |-> NoErr, archive_data |-> PackLocalFile(fsys, data.path)]
  ELSE [err |-> Err("TypeError", "unsupported data type"), archive_data |-> <<>>]

\* archive_data for the given data, or the error raised before any remote call
BuildArchive(fsys, data) ==
  IF data.type = "bytes" THEN [err |-> NoErr, archive_data |-> data.bytes]
  ELSE IF data.type = "BufferedReader" THEN [err |-> NoErr, archive_data |-> data.bytes]
  ELSE IF data.type = "str"
    THEN IF LocalPathError(fsys, data.path) # NoErr
           THEN [err |-> LocalPathError(fsys, data.path), archive_data |-> <<>>]
           ELSE [err |-> NoErr, archive_data |-> PackLocalFile(fsys, data.path)]
  ELSE [err |-> Err("TypeError", "unsupported data type"), archive_data |-> <<>>]

put_archive_call(path, data) ==
  /\ Enter("put_archive", path, None, data)
  /\ LET built == BuildArchive(fs, data)
     IN IF built.err # NoErr
          THEN /\ outcome' = Raise(built.err)
               /\ pc' = "idle"
               /\ api_path' = <<>>
               /\ archive_data' = <<>>
          ELSE /\ outcome' = NoOutcome
               /\ pc' = "pa_extract"
               /\ api_path' = StripBox(path)
               /\ archive_data' = built.archive_data
  /\ stats' = ""
  /\ tar_data_bytes' = <<>>
  /\ target_member' = NoMember
  /\ extracted_file' = <<>>
  /\ UNCHANGED <<fs, box_fs, last_put, attrs, file>>

\* box_api.extract_archive(id, path=api_path, archive_data=archive_data)
put_archive_send ==
  /\ pc = "pa_extract"
  /\ \/ /\ calls' = Append(calls, ApiCall("extract_archive", api_path, archive_data, NoErr, ""))
        /\ box_fs' = RemoteExtract(box_fs, api_path, archive_data)
        /\ last_put' = IF args.data.type = "str"
                         THEN [dir |-> api_path, src |-> args.data.path,
                               content |-> fs[args.data.path].content]
                         ELSE NoPut
        /\ outcome' = Return(NoStream, "")
     \/ \E e \in RemoteErrors :
          /\ calls' = Append(calls, ApiCall("extract_archive", api_path, archive_data, e, ""))
          /\ outcome' = Raise(e)
          /\ UNCHANGED <<box_fs, last_put>>
  /\ pc' = "idle"
  /\ UNCHANGED <<args, copy_args, attrs, attrs0, file, file0, ncalls, fs, fs0, ga_locals, pa_locals>>

\* ---------------------------------------------------------------- copy
\* source_is_local = os.path.exists(source)
source_is_local(fsys, source) == exists(fsys, source)

\* a test of the target's parent that takes an empty parent for a missing one
target_dir_exists_local_empty_is_missing(fsys, target) ==
  LET target_dir == dirname(target)
  IN IF target_dir # <<>> THEN exists(fsys, target_dir) ELSE FALSE

\* target_dir_exists_local = os.path.exists(target_dir) if target_dir else True
target_dir_exists_local(fsys, target) ==
  LET target_dir == dirname(target)
  IN IF target_dir # <<>> THEN exists(fsys, target_dir) ELSE TRUE

\* copy raising before it has called put_archive or get_archive
copy_raise(source, target, e) ==
  /\ Enter("copy", source, target, NoData)
  /\ outcome' = Raise(e)
  /\ pc' = "idle"
  /\ stats' = ""
  /\ tar_data_bytes' = <<>>
  /\ target_member' = NoMember
  /\ extracted_file' = <<>>
  /\ api_path' = <<>>
  /\ archive_data' = <<>>
  /\ UNCHANGED <<fs, box_fs, last_put, attrs, file>>

\* Box.copy(source, target): the two local checks and the branch they select
copy_call(source, target) ==
  /\ copy_args' = CopyArgs(source, target)
  /\ IF source_is_local(fs, source) /\ ~target_dir_exists_local(fs, target)
       THEN put_archive_call(target, DataStr(source))
     ELSE IF ~source_is_local(fs, source) /\ target_dir_exists_local(fs, target)
       THEN get_archive_call(source, target)
     ELSE IF source_is_local(fs, source) /\ target_dir_exists_local(fs, target)
       THEN copy_raise(source, target, Err("ValueError", "Ambiguous copy"))
     ELSE copy_raise(source, target, Err("ValueError", "Cannot determine copy direction"))

\* ---------------------------------------------------------------- Box
\* what box_api.get may return, and box_api.run as the box of its response
BoxResponses ==
  { BoxData("box-1", "running", "ubuntu:latest", "name=test-box"),
    BoxData("box-1", "stopped", "ubuntu:latest", "None"),
    BoxData("box-2", "running", "ubuntu:latest", "{}"),
    BoxData("box-1", Missing, "ubuntu:latest", "{}") }

\* what box_api.start and box_api.stop may return
ActionResponse(success, message) == [success |-> success, message |-> message]
ActionResponses ==
  { ActionResponse("True", "done"),
    ActionResponse("False", "failed"),
    ActionResponse(Missing, "done") }

\* BoxStartResponse / BoxStopResponse.model_validate: both fields are required
action_validate(r) == Missing \notin {r.success, r.message}

\* what box_api.run may return: the box and the exit code
RunResponses == [box : BoxResponses, exitCode : {"0", "None"}]

\* what box_api.delete and box_api.reclaim may return: the message, if any
MessageResponses == {"done", Missing}

ValidationError(model) == Err("ValidationError", model)

BoxMethods == {"reload", "start", "stop", "delete", "run", "reclaim"}

\* the first remote call of each method
FirstCall(op) == IF op = "reload" THEN "bx_get" ELSE "bx_" \o op

\* the call of a method of the Box; self.id is read for the first remote call
Box_call(op) ==
  /\ Enter(op, <<attrs.id>>, None, NoData)
  /\ pc' = FirstCall(op)
  /\ outcome' = NoOutcome
  /\ copy_args' = NoCopy
  /\ UNCHANGED <<fs, box_fs, last_put, attrs, file, ga_locals, pa_locals>>

\* Box.reload, also as the last step of start and stop:
\* raw_data = box_api.get(self.id), validation, self.attrs = validated_data
\* (the call record keeps the status of the box data returned)
Box_reload ==
  /\ pc = "bx_get"
  /\ \/ \E raw \in BoxResponses :
          /\ calls' = Append(calls, ApiCall("get", <<attrs.id>>, <<>>, NoErr, raw.status))
          /\ IF model_validate(raw).ok
               THEN /\ attrs' = model_validate(raw).value
                    /\ outcome' = Return(NoStream, "")
               ELSE /\ attrs' = attrs
                    /\ outcome' = Raise(ValidationError("BoxGetResponse"))
     \/ \E e \in RemoteErrors :
          /\ calls' = Append(calls, ApiCall("get", <<attrs.id>>, <<>>, e, ""))
          /\ outcome' = Raise(e)
          /\ attrs' = attrs
  /\ pc' = "idle"
  /\ UNCHANGED <<args, copy_args, attrs0, file, file0, ncalls, fs, fs0, box_fs,
                 last_put, ga_locals, pa_locals>>

\* a start that reloads whether or not its call succeeded
Box_start_reload_anyway ==
  /\ pc = "bx_start"
  /\ \/ \E r \in ActionResponses :
          /\ calls' = Append(calls, ApiCall("start", <<attrs.id>>, <<>>, NoErr, ""))
          /\ IF action_validate(r)
               THEN outcome' = outcome /\ pc' = "bx_get"
               ELSE outcome' = Raise(ValidationError("BoxActionResponse")) /\ pc' = "idle"
     \/ \E e \in RemoteErrors :
          /\ calls' = Append(calls, ApiCall("start", <<attrs.id>>, <<>>, e, ""))
          /\ outcome' = outcome
          /\ pc' = "bx_get"
  /\ UNCHANGED <<args, copy_args, attrs, attrs0, file, file0, ncalls, fs, fs0,
                 box_fs, last_put, ga_locals, pa_locals>>

\* response_data = box_api.start(self.id) (or stop) and its validation; the
\* reload follows
Box_action(api) ==
  /\ pc = "bx_" \o api
  /\ \/ \E r \in ActionResponses :
          /\ calls' = Append(calls, ApiCall(api, <<attrs.id>>, <<>>, NoErr, ""))
          /\ IF action_validate(r)
               THEN outcome' = outcome /\ pc' = "bx_get"
               ELSE outcome' = Raise(ValidationError("BoxActionResponse")) /\ pc' = "idle"
     \/ \E e \in RemoteErrors :
          /\ calls' = Append(calls, ApiCall(api, <<attrs.id>>, <<>>, e, ""))
          /\ outcome' = Raise(e)
          /\ pc' = "idle"
  /\ UNCHANGED <<args, copy_args, attrs, attrs0, file, file0, ncalls, fs, fs0,
                 box_fs, last_put, ga_locals, pa_locals>>

Box_start == Box_action("start")

Box_stop == Box_action("stop")

\* box_api.delete or box_api.reclaim and the validation of the response
Box_message(api) ==
  /\ pc = "bx_" \o api
  /\ \/ \E m \in MessageResponses :
          /\ calls' = Append(calls, ApiCall(api, <<attrs.id>>, <<>>, NoErr, ""))
          /\ outcome' = IF m # Missing
                          THEN Return(NoStream, IF api = "reclaim" THEN m ELSE "")
                          ELSE Raise(ValidationError("BoxMessageResponse"))
     \/ \E e \in RemoteErrors :
          /\ calls' = Append(calls, ApiCall(api, <<attrs.id>>, <<>>, e, ""))
          /\ outcome' = Raise(e)
  /\ pc' = "idle"
  /\ UNCHANGED <<args, copy_args, attrs, attrs0, file, file0, ncalls, fs, fs0,
                 box_fs, last_put, ga_locals, pa_locals>>

Box_delete == Box_message("delete")

Box_reclaim == Box_message("reclaim")

\* Box.run: box_api.run, validation, self.attrs = validated_response.box, and
\* the exit code, -1 when the response has none
Box_run ==
  /\ pc = "bx_run"
  /\ \/ \E r \in RunResponses :
          /\ calls' = Append(calls, ApiCall("run", <<attrs.id>>, <<>>, NoErr, r.box.status))
          /\ IF model_validate(r.box).ok
               THEN /\ attrs' = model_validate(r.box).value
                    /\ outcome' = Return(NoStream, IF r.exitCode = "None" THEN "-1" ELSE r.exitCode)
               ELSE /\ attrs' = attrs
                    /\ outcome' = Raise(ValidationError("BoxRunResponse"))
     \/ \E e \in RemoteErrors :
          /\ calls' = Append(calls, ApiCall("run", <<attrs.id>>, <<>>, e, ""))
          /\ outcome' = Raise(e)
          /\ attrs' = attrs
  /\ pc' = "idle"
  /\ UNCHANGED <<args, copy_args, attrs0, file, file0, ncalls, fs, fs0, box_fs,
                 last_put, ga_locals, pa_locals>>

\* ---------------------------------------------------------------- File
\* what file_service.head may return: None, {}, or metadata
HeadResults ==
  { NoneStat, EmptyDict,
    FileStat("file.txt", "100", "file"),
    FileStat("file_updated.txt", "200", "file") }

\* the call of File.reload
File_call ==
  /\ Enter("file_reload", file.path, None, NoData)
  /\ pc' = "fl_head"
  /\ outcome' = NoOutcome
  /\ copy_args' = NoCopy
  /\ UNCHANGED <<fs, box_fs, last_put, attrs, file, ga_locals, pa_locals>>

\* a reload that forgets the metadata when head raises
File_reload_clears_on_error ==
  /\ pc = "fl_head"
  /\ \/ \E data \in HeadResults :
          /\ calls' = Append(calls, ApiCall("head", file.path, <<>>, NoErr, data.name))
          /\ file' = IF truthy(data) THEN [file EXCEPT !.attrs = data] ELSE file
          /\ outcome' = Return(NoStream, "")
     \/ \E e \in RemoteErrors :
          /\ calls' = Append(calls, ApiCall("head", file.path, <<>>, e, ""))
          /\ file' = [file EXCEPT !.attrs = EmptyDict]
          /\ outcome' = Raise(e)
  /\ pc' = "idle"
  /\ UNCHANGED <<args, copy_args, attrs, attrs0, file0, ncalls, fs, fs0, box_fs,
                 last_put, ga_locals, pa_locals>>

\* File.reload: data = file_service.head(self.path); if data: self.attrs = data
\* (the call record keeps the name of the metadata returned)
File_reload ==
  /\ pc = "fl_head"
  /\ \/ \E data \in HeadResults :
          /\ calls' = Append(calls, ApiCall("head", file.path, <<>>, NoErr, data.name))
          /\ file' = IF truthy(data) THEN [file EXCEPT !.attrs = data] ELSE file
          /\ outcome' = Return(NoStream, "")
     \/ \E e \in RemoteErrors :
          /\ calls' = Append(calls, ApiCall("head", file.path, <<>>, e, ""))
          /\ file' = file
          /\ outcome' = Raise(e)
  /\ pc' = "idle"
  /\ UNCHANGED <<args, copy_args, attrs, attrs0, file0, ncalls, fs, fs0, box_fs,
                 last_put, ga_locals, pa_locals>>

\* ---------------------------------------------------------------- FileManager
\* if not path.startswith("/"): path = "/" + path
normalize_path_unchanged(p) == p

normalize_path(p) == IF p # <<>> /\ p[1] = "/" THEN p ELSE <<"/">> \o p

\* the paths given to the manager: absolute, relative, empty
FilePaths == {F_abs, F_rel, <<>>}

\* the NotFound that FileManager.get makes, status 404
FileNotFound == Err("NotFound", "404 File not found")

\* what get does with the outcome of head: the error raised by head, NotFound
\* for a falsy result, a File otherwise
FileManager_get_outcome(err, a) ==
  IF err # NoErr THEN Raise(err)
  ELSE IF ~truthy(a) THEN Raise(FileNotFound)
  ELSE Return(NoStream, "File")

\* what exists does with the outcome of head: False for NotFound and APIError,
\* otherwise attrs is not None
FileManager_exists_outcome(err, a) ==
  IF err # NoErr THEN Return(NoStream, "False")
  ELSE Return(NoStream, IF a # NoneStat THEN "True" ELSE "False")

\* the call of client.files.get or client.files.exists
FileManager_call(op, path) ==
  /\ op \in {"files.get", "files.exists"}
  /\ Enter(op, path, None, NoData)
  /\ pc' = IF op = "files.get" THEN "fm_get" ELSE "fm_exists"
  /\ outcome' = NoOutcome
  /\ copy_args' = NoCopy
  /\ UNCHANGED <<fs, box_fs, last_put, attrs, file, ga_locals, pa_locals>>

\* FileManager.get: normalisation, head, and the File the caller then holds
FileManager_get ==
  /\ pc = "fm_get"
  /\ LET path == normalize_path(args.path) IN
       \/ \E a \in HeadResults :
            /\ calls' = Append(calls, ApiCall("head", path, <<>>, NoErr, a.name))
            /\ outcome' = FileManager_get_outcome(NoErr, a)
            /\ file' = IF truthy(a) THEN File_init(path, a) ELSE file
       \/ \E e \in RemoteErrors :
            /\ calls' = Append(calls, ApiCall("head", path, <<>>, e, ""))
            /\ outcome' = FileManager_get_outcome(e, NoneStat)
            /\ file' = file
  /\ pc' = "idle"
  /\ UNCHANGED <<args, copy_args, attrs, attrs0, file0, ncalls, fs, fs0, box_fs,
                 last_put, ga_locals, pa_locals>>

\* an exists that lets the error of head through
FileManager_exists_propagates ==
  /\ pc = "fm_exists"
  /\ LET path == normalize_path(args.path) IN
       \/ \E a \in HeadResults :
            /\ calls' = Append(calls, ApiCall("head", path, <<>>, NoErr, a.name))
            /\ outcome' = FileManager_exists_outcome(NoErr, a)
       \/ \E e \in RemoteErrors :
            /\ calls' = Append(calls, ApiCall("head", path, <<>>, e, ""))
            /\ outcome' = Raise(e)
  /\ pc' = "idle"
  /\ UNCHANGED <<args, copy_args, attrs, attrs0, file, file0, ncalls, fs, fs0,
                 box_fs, last_put, ga_locals, pa_locals>>

\* FileManager.exists: normalisation, head, and the answer
FileManager_exists ==
  /\ pc = "fm_exists"
  /\ LET path == normalize_path(args.path) IN
       \/ \E a \in HeadResults :
            /\ calls' = Append(calls, ApiCall("head", path, <<>>, NoErr, a.name))
            /\ outcome' = FileManager_exists_outcome(NoErr, a)
       \/ \E e \in RemoteErrors :
            /\ calls' = Append(calls, ApiCall("head", path, <<>>, e, ""))
            /\ outcome' = FileManager_exists_outcome(e, NoneStat)
  /\ pc' = "idle"
  /\ UNCHANGED <<args, copy_args, attrs, attrs0, file, file0, ncalls, fs, fs0,
                 box_fs, last_put, ga_locals, pa_locals>>

\* ---------------------------------------------------------------- BoxManager
\* what box_service.get may raise: APIError with status 404 or 500, NotFound
ServiceErrors ==
  { Err("APIError", "404 Not Found"),
    Err("APIError", "500 Server Error"),
    Err("NotFound", "404 Not Found") }

\* the errors BoxManager.get makes itself, both NotFound with status 404
EmptyResponse == Err("NotFound", "404 Box not found (empty response)")
BoxNotFound == Err("NotFound", "404 Box not found")

\* e.status_code
status_code(e) ==
  IF e \in {Err("APIError", "404 Not Found"), Err("NotFound", "404 Not Found"),
            EmptyResponse, BoxNotFound} THEN 404
  ELSE IF e = Err("APIError", "500 Server Error") THEN 500
  ELSE 0

\* isinstance(e, APIError): NotFound is a subclass of APIError
IsAPIError(e) == e.type \in {"APIError", "NotFound"}

\* what box_service.get may return: box data, {} or None, data without an id
\* or with an empty one
ServiceResponses ==
  BoxResponses \cup { BoxData(Missing, Missing, Missing, Missing),
                      BoxData(Missing, "running", "ubuntu:latest", "{}"),
                      BoxData("", "running", "ubuntu:latest", "{}") }

\* Box.__init__(self, client, box_data) called with the keywords kw
Box_init_error(kw) ==
  IF kw = {"client", "box_data"} THEN NoErr
  ELSE Err("TypeError", "Box.__init__() got an unexpected keyword argument")

\* not raw_data or not raw_data.get("id")
no_id(raw) == raw.id \in {Missing, ""}

\* the error raised inside the try block, NoErr when the Box is returned
BoxManager_get_try(err, raw) ==
  IF err # NoErr THEN err
  ELSE IF no_id(raw) THEN EmptyResponse
  ELSE Box_init_error({"client", "id", "attrs"})

\* a handler that re-raises whatever the status is
BoxManager_get_outcome_reraises(err, raw) ==
  LET e == BoxManager_get_try(err, raw) IN
    IF e = NoErr THEN Return(NoStream, "Box") ELSE Raise(e)

\* BoxManager.get: the try block and `except APIError as e`, which raises a
\* new NotFound for status 404 and re-raises e otherwise
BoxManager_get_outcome(err, raw) ==
  LET e == BoxManager_get_try(err, raw) IN
    IF e = NoErr THEN Return(NoStream, "Box")
    ELSE IF IsAPIError(e) /\ status_code(e) = 404 THEN Raise(BoxNotFound)
    ELSE Raise(e)

BoxIds == {"box-1", "box-404"}

\* the call of client.boxes.get
BoxManager_call(box_id) ==
  /\ Enter("boxes.get", <<box_id>>, None, NoData)
  /\ pc' = "bm_get"
  /\ outcome' = NoOutcome
  /\ copy_args' = NoCopy
  /\ UNCHANGED <<fs, box_fs, last_put, attrs, file, ga_locals, pa_locals>>

\* BoxManager.get: the service call, then the constructor of Box when the
\* response has an id (the call record keeps the id of the response)
BoxManager_get ==
  /\ pc = "bm_get"
  /\ \/ \E raw \in ServiceResponses :
          /\ calls' = LET got == Append(calls, ApiCall("get", args.path, <<>>, NoErr, raw.id)) IN
                        IF no_id(raw) THEN got
                        ELSE Append(got, ApiCall("Box", args.path, <<>>,
                                                 Box_init_error({"client", "id", "attrs"}), ""))
          /\ outcome' = BoxManager_get_outcome(NoErr, raw)
     \/ \E e \in ServiceErrors :
          /\ calls' = Append(calls, ApiCall("get", args.path, <<>>, e, ""))
          /\ outcome' = BoxManager_get_outcome(e, BoxData(Missing, Missing, Missing, Missing))
  /\ pc' = "idle"
  /\ UNCHANGED <<args, copy_args, attrs, attrs0, file, file0, ncalls, fs, fs0,
                 box_fs, last_put, ga_locals, pa_locals>>

\* ---------------------------------------------------------------- behaviour
LocalTargets == {None, P_b, P_out}

PutDirs == {R_x, B_x, <<"BOX:", "/", "x">>, P_root}

\* the (source, target) pairs given to copy
CopyPairs ==
  {<<P_b, B_x>>, <<P_b, P_b>>, <<P_b, P_out>>, <<P_b, P_rel>>,
   <<P_nope, B_x>>, <<B_xb, B_x>>, <<B_xb, P_b>>, <<B_xb, B_rel>>}

SomeArchives == {TarBytes(<<Entry(N_b, "file", Ramp(1))>>), Garbage}

PutData ==
  {DataBytes(bs) : bs \in SomeArchives}
    \cup {DataReader(bs) : bs \in SomeArchives}
    \cup {DataStr(p) : p \in {P_b, P_out, P_tmp, P_nope}}
    \cup {DataOther("int"), DataOther("BytesIO")}

Next ==
  \/ \E path \in HeadPaths : head_archive_call(path)
  \/ \E path \in RemotePaths, local_path \in LocalTargets :
       get_archive_call(path, local_path) /\ copy_args' = NoCopy
  \/ get_archive_head
  \/ get_archive_fetch
  \/ get_archive_extract
  \/ get_archive_write
  \/ \E path \in PutDirs, data \in PutData :
       put_archive_call(path, data) /\ copy_args' = NoCopy
  \/ put_archive_send
  \/ \E pair \in CopyPairs : copy_call(pair[1], pair[2])

Spec == Init /\ [][Next]_vars

\* the methods of the Box, the File and the two managers
ObjectNext ==
  \/ \E op \in BoxMethods : Box_call(op)
  \/ Box_reload
  \/ Box_start
  \/ Box_stop
  \/ Box_delete
  \/ Box_reclaim
  \/ Box_run
  \/ File_call
  \/ File_reload
  \/ \E op \in {"files.get", "files.exists"}, path \in FilePaths :
       FileManager_call(op, path)
  \/ FileManager_get
  \/ FileManager_exists
  \/ \E box_id \in BoxIds : BoxManager_call(box_id)
  \/ BoxManager_get

ObjectSpec == Init /\ [][ObjectNext]_vars

\* the copy loop of get_archive is local code of one synchronous thread: once
\* entered it keeps taking turns
FairSpec == Spec /\ WF_vars(get_archive_write)

\* ---------------------------------------------------------------- properties
\* get_archive has been given local_path and the data fetch has returned
Downloaded ==
  /\ args.op = "get_archive"
  /\ args.local_path # None
  /\ Len(calls) = 2
  /\ calls[2].err = NoErr

IsUnder(name, d) ==
  /\ Len(name) > Len(d) + 1
  /\ SubSeq(name, 1, Len(d) + 1) = d \o <<"/">>

\* C1: get_archive calls head_archive for path before the data fetch, with or
\* without local_path; an error of head_archive reaches the caller and no fetch
\* is made; an error of the fetch reaches the caller after exactly one head and
\* one fetch; in both cases the local filesystem is as it was at the call.
C1_HeadThenFetch ==
  args.op = "get_archive" =>
    /\ Len(calls) <= 2
    /\ Len(calls) >= 1 =>
         /\ calls[1].api = "head_archive"
         /\ calls[1].path = args.path
    /\ Len(calls) = 2 =>
         /\ calls[2].api = "get_archive"
         /\ calls[2].path = args.path
         /\ calls[1].err = NoErr
    /\ (pc \in {"ga_extract", "ga_write"} \/ outcome.kind = "return") =>
         /\ Len(calls) = 2
         /\ calls[2].err = NoErr
    /\ \A i \in 1..Len(calls) :
         calls[i].err # NoErr =>
           /\ i = Len(calls)
           /\ pc = "idle"
           /\ outcome = Raise(calls[i].err)
           /\ fs = fs0

\* the data fetch has failed after a successful head, local_path given
C1_Witness ==
  /\ args.op = "get_archive"
  /\ args.local_path = P_out
  /\ Len(calls) = 2
  /\ calls[1].err = NoErr
  /\ calls[2].err # NoErr
  /\ outcome.kind = "raise"

\* C2: with local_path, an archive of a directory entry followed by two or more
\* children always ends in TarError or IsADirectoryError, never in a normal
\* return, and the file at local_path is neither created nor changed.
C2_DirectoryNeverDownloaded ==
  LET tar == TarOpen(tar_data_bytes)
      members == tar.members
  IN ( /\ Downloaded
       /\ tar.ok
       /\ Len(members) >= 3
       /\ members[1].type = "dir"
       /\ \A i \in 2..Len(members) : IsUnder(members[i].name, members[1].name) ) =>
       /\ pc \in {"ga_extract", "idle"}
       /\ outcome.kind # "return"
       /\ pc = "idle" =>
            /\ outcome.kind = "raise"
            /\ outcome.err.type \in {"TarError", "IsADirectoryError"}
       /\ fs[args.local_path] = fs0[args.local_path]

\* a directory archive with two children has been refused
C2_Witness ==
  /\ Downloaded
  /\ args.path = R_xb
  /\ tar_data_bytes = TarBytes(<<Entry(N_dir, "dir", <<>>),
                                 Entry(N_dir_b, "file", <<>>),
                                 Entry(N_child, "file", Ramp(1))>>)
  /\ outcome.kind = "raise"

\* C3: with local_path, an archive of more than one entry gets past the member
\* count check only if it has exactly two entries, a directory and then a file
\* named basename(path); every other one fails with AmbiguousArchive with no
\* member selected and local_path untouched.
C3_OnlyDirPlusNamedFile ==
  LET tar == TarOpen(tar_data_bytes)
      members == tar.members
      pair == /\ Len(members) = 2
              /\ members[1].type = "dir"
              /\ members[2].type = "file"
              /\ members[2].name = basename(args.path)
  IN (Downloaded /\ tar.ok /\ Len(members) > 1) =>
       /\ (pc = "ga_write" \/ outcome.kind = "return" \/ target_member # NoMember) => pair
       /\ (~pair /\ pc = "idle") =>
            /\ outcome = Raise(Err("TarError", "AmbiguousArchive"))
            /\ target_member = NoMember
            /\ fs[args.local_path] = fs0[args.local_path]

\* a two-entry archive, directory plus named file, has been downloaded
C3_Witness ==
  /\ Downloaded
  /\ Len(TarOpen(tar_data_bytes).members) = 2
  /\ outcome.kind = "return"
  /\ fs[args.local_path] = File(Ramp(MaxLen))

\* C4: with local_path, when the archive is past the member count checks and no
\* file entry is named target_filename or ends in "/" + target_filename, the
\* call fails with IsADirectoryError if the first entry is a directory and with
\* FileNotFoundError otherwise, and local_path is not written.
C4_NoMatchError ==
  LET tar == TarOpen(tar_data_bytes)
      members == tar.members
      tf == basename(args.path)
      pair == /\ Len(members) = 2
              /\ members[1].type = "dir"
              /\ members[2].type = "file"
              /\ members[2].name = tf
  IN ( /\ Downloaded
       /\ tar.ok
       /\ Len(members) >= 1
       /\ (Len(members) = 1 \/ pair)
       /\ \A i \in 1..Len(members) :
            ~( /\ members[i].type = "file"
               /\ (members[i].name = tf \/ endswith(members[i].name, <<"/">> \o tf)) )
       /\ pc = "idle" ) =>
       /\ outcome = Raise(IF members[1].type = "dir"
                            THEN Err("IsADirectoryError", "RemoteIsDirectory")
                            ELSE Err("FileNotFoundError", "MemberNotFound"))
       /\ fs[args.local_path] = fs0[args.local_path]

\* an archive of one directory entry has been refused as a directory
C4_Witness ==
  /\ Downloaded
  /\ tar_data_bytes = TarBytes(<<Entry(N_dir, "dir", <<>>)>>)
  /\ outcome = Raise(Err("IsADirectoryError", "RemoteIsDirectory"))

\* the scenario of C5: entries dir/ and dir/child.txt fetched for /dir
C5_Scenario ==
  /\ Downloaded
  /\ args.path = R_dir
  /\ tar_data_bytes = TarBytes(<<Entry(N_dir, "dir", <<>>), Entry(N_child, "file", Ramp(1))>>)
  /\ pc = "idle"

\* C5 as stated: the scenario fails with RemoteIsDirectory (IsADirectoryError).
C5_Original ==
  C5_Scenario => outcome = Raise(Err("IsADirectoryError", "RemoteIsDirectory"))

\* C5, amended: the scenario fails with AmbiguousArchive (tarfile.TarError),
\* raised by the member count check, and local_path is not written.
C5_ScenarioIsAmbiguous ==
  C5_Scenario =>
    /\ outcome = Raise(Err("TarError", "AmbiguousArchive"))
    /\ fs[args.local_path] = fs0[args.local_path]

\* the scenario has run to its end
C5_Witness ==
  C5_Scenario /\ outcome.kind = "raise" /\ args.local_path = P_out

\* C6: get_archive with local_path returns only after the content of the chosen
\* member has been written to local_path, and then returns (None, stats) with
\* stats the value head_archive returned.
C6_ReturnAfterWrite ==
  (args.op = "get_archive" /\ args.local_path # None /\ outcome.kind = "return") =>
    /\ calls[1].api = "head_archive"
    /\ calls[1].err = NoErr
    /\ outcome = Return(NoStream, calls[1].stats)
    /\ target_member # NoMember
    /\ target_member.type = "file"
    /\ extracted_file = <<>>
    /\ fs[args.local_path] = File(target_member.content)

\* a download has returned after creating a file that was not there
C6_Witness ==
  /\ args.op = "get_archive"
  /\ args.local_path = P_out
  /\ fs0[P_out].kind = "absent"
  /\ outcome = Return(NoStream, "stat-file-42")
  /\ fs[P_out] = File(Ramp(MaxLen))

\* C7: after a successful single-file extraction local_path holds exactly the
\* bytes of the chosen member, in order, whatever it held before; and the copy
\* loop, once entered, comes to an end.
C7_ExactBytesAndTermination ==
  /\ []( (args.op = "get_archive" /\ args.local_path # None /\ outcome.kind = "return") =>
           /\ fs[args.local_path] = File(target_member.content)
           /\ \E i \in 1..Len(TarOpen(tar_data_bytes).members) :
                TarOpen(tar_data_bytes).members[i] = target_member )
  /\ (pc = "ga_write") ~> (pc = "idle")

\* a member of several chunks has replaced a file of other, longer content
C7_Witness ==
  /\ args.op = "get_archive"
  /\ args.local_path = P_b
  /\ outcome.kind = "return"
  /\ Len(target_member.content) > DEFAULT_BUFFER_SIZE
  /\ fs0[P_b].kind = "file"
  /\ fs0[P_b].content # target_member.content
  /\ fs[P_b].content = target_member.content

\* the last upload was of a local file, and the download now ended is of the
\* place it was extracted to, served back as the single-entry archive of that file
RoundTrip ==
  /\ args.op = "get_archive"
  /\ args.local_path # None
  /\ pc = "idle"
  /\ Len(calls) = 2
  /\ calls[2].err = NoErr
  /\ last_put.src # None
  /\ args.path = JoinRemote(last_put.dir, basename(last_put.src))
  /\ tar_data_bytes \in FaithfulArchives(box_fs, args.path)

\* C8: uploading a local regular file f into remote directory d and then
\* downloading d/basename(f) to a local target leaves the target byte-equal to
\* f, given a remote that extracts the upload into d and serves the file back
\* as a single-entry archive.
C8_RoundTrip ==
  RoundTrip =>
    /\ outcome.kind = "return"
    /\ fs[args.local_path] = File(last_put.content)

\* a file of several chunks has gone up and come back to a new local path
C8_Witness ==
  /\ RoundTrip
  /\ last_put.src = P_b
  /\ args.local_path = P_out
  /\ Len(last_put.content) > DEFAULT_BUFFER_SIZE
  /\ fs[P_out] = fs[P_b]

C10_MissingPathAndBadType ==
  args.op = "put_archive" =>
    /\ (args.data.type = "str" /\ fs0[args.data.path].kind = "absent") =>
         /\ pc = "idle"
         /\ outcome = Raise(Err("FileNotFoundError", "LocalPathMissing"))
         /\ calls = <<>>
    /\ args.data.type \notin {"bytes", "BufferedReader", "BytesIO", "str"} =>
         /\ pc = "idle"
         /\ outcome.kind = "raise"
         /\ outcome.err.type = "TypeError"
         /\ calls = <<>>

\* the upload of a missing local path has been refused
C10_Witness ==
  /\ args.op = "put_archive"
  /\ args.data = DataStr(P_nope)
  /\ outcome = Raise(Err("FileNotFoundError", "LocalPathMissing"))

\* C11: put_archive given the path of a local file as data and the remote
\* root "/" as remote_dir is rejected with a ValueError and makes no
\* extract_archive call.
C11_RootUploadRejected ==
  (/\ args.op = "put_archive"
   /\ args.data.type = "str"
   /\ fs0[args.data.path].kind = "file"
   /\ args.path = <<"/">>) =>
    /\ calls = <<>>
    /\ pc = "idle" => (outcome.kind = "raise" /\ outcome.err.type = "ValueError")

\* C12: the path put_archive passes to extract_archive is remote_dir without
\* its leading "box:" marker, so it carries no marker, and a remote_dir
\* without a marker is passed unchanged.
C12_MarkerStripped ==
  \A i \in 1..Len(calls) :
    calls[i].api = "extract_archive" =>
      /\ calls[i].path =
           (IF args.path[1] \in {"box:", "BOX:"} THEN Tail(args.path) ELSE args.path)
      /\ calls[i].path[1] \notin {"box:", "BOX:"}

\* an upload to a marked remote directory has reached the remote
C12_Witness ==
  /\ args.op = "put_archive"
  /\ args.path = B_x
  /\ copy_args = NoCopy
  /\ Len(calls) = 1
  /\ calls[1].api = "extract_archive"
  /\ calls[1].path = R_x

\* C13 as stated: put_archive given raw bytes or an open binary stream of any
\* kind sends exactly those bytes in exactly one extract_archive call, and an
\* error of that call reaches the caller as the same error.
C13_Original ==
  (/\ args.op = "put_archive"
   /\ args.data.type \in {"bytes", "BufferedReader", "BytesIO"}
   /\ pc = "idle") =>
    /\ Len(calls) = 1
    /\ calls[1].api = "extract_archive"
    /\ calls[1].data = args.data.bytes
    /\ calls[1].err # NoErr => outcome = Raise(calls[1].err)

\* C13: put_archive given raw bytes or an io.BufferedReader sends exactly those
\* bytes (for the reader: what one read to its end returns) in exactly one
\* extract_archive call, returns when that call returns and raises the call's
\* error when it raises; a binary stream of another class (io.BytesIO) is
\* refused with TypeError before any remote call.
C13_BytesVerbatim ==
  args.op = "put_archive" =>
    /\ (args.data.type \in {"bytes", "BufferedReader"} /\ pc = "pa_extract") =>
         (calls = <<>> /\ archive_data = args.data.bytes)
    /\ (args.data.type \in {"bytes", "BufferedReader"} /\ pc = "idle") =>
         /\ Len(calls) = 1
         /\ calls[1].api = "extract_archive"
         /\ calls[1].data = args.data.bytes
         /\ calls[1].err # NoErr => outcome = Raise(calls[1].err)
         /\ calls[1].err = NoErr => outcome.kind = "return"
    /\ args.data.type = "BytesIO" =>
         /\ pc = "idle"
         /\ calls = <<>>
         /\ outcome.kind = "raise"
         /\ outcome.err.type = "TypeError"

\* the bytes read from a reader have been sent and the remote has raised
C13_Witness ==
  /\ args.op = "put_archive"
  /\ args.data = DataReader(Garbage)
  /\ Len(calls) = 1
  /\ calls[1].data = Garbage
  /\ calls[1].err = Err("APIError", "remote")
  /\ outcome = Raise(Err("APIError", "remote"))

\* C14: when put_archive is given the path of an existing local regular file,
\* the archive it builds and sends holds exactly one entry, a regular file
\* named by the basename of the local path, without any directory component,
\* whose content is the content of the local file.
C14_SingleBasenameEntry ==
  (/\ args.op = "put_archive"
   /\ args.data.type = "str"
   /\ fs0[args.data.path].kind = "file") =>
    LET sent == Entry(basename(args.data.path), "file", fs0[args.data.path].content)
    IN /\ \A i \in 1..Len(sent.name) : sent.name[i] # "/"
       /\ pc = "pa_extract" =>
            (TarOpen(archive_data).ok /\ TarOpen(archive_data).members = <<sent>>)
       /\ pc = "idle" =>
            /\ Len(calls) = 1
            /\ calls[1].api = "extract_archive"
            /\ TarOpen(calls[1].data).ok
            /\ TarOpen(calls[1].data).members = <<sent>>

\* /tmp/b.txt has been uploaded to /x and the box holds it as /x/b.txt
C14_Witness ==
  /\ args.op = "put_archive"
  /\ args.data = DataStr(P_b)
  /\ args.path = R_x
  /\ Len(calls) = 1
  /\ calls[1].err = NoErr
  /\ TarOpen(calls[1].data).members = <<Entry(N_b, "file", fs0[P_b].content)>>
  /\ R_xb \in DOMAIN box_fs
  /\ box_fs[R_xb] = fs0[P_b].content

C16_CopyDownloadStripsMarker ==
  (/\ copy_args # NoCopy
   /\ copy_args.source[1] = "box:"
   /\ copy_args.target[1] # "box:") =>
    /\ args.op = "get_archive"
    /\ args.local_path = copy_args.target
    /\ \A i \in 1..Len(calls) :
         /\ calls[i].api \in {"head_archive", "get_archive"}
         /\ calls[i].path = Tail(copy_args.source)

\* C17: Box.copy with both source and target carrying the "box:" marker fails
\* with a ValueError before any remote call and without touching the local
\* filesystem.
C17_BothMarkedRejected ==
  (/\ copy_args # NoCopy
   /\ copy_args.source[1] = "box:"
   /\ copy_args.target[1] = "box:") =>
    /\ calls = <<>>
    /\ fs = fs0
    /\ pc = "idle" => (outcome.kind = "raise" /\ outcome.err.type = "ValueError")

\* C18: Box.copy with neither source nor target carrying the "box:" marker
\* always fails with a ValueError and makes no remote call, whether or not the
\* two paths exist locally.
C18_NeitherMarkedRejected ==
  (/\ copy_args # NoCopy
   /\ copy_args.source[1] # "box:"
   /\ copy_args.target[1] # "box:") =>
    /\ calls = <<>>
    /\ pc = "idle" => (outcome.kind = "raise" /\ outcome.err.type = "ValueError")

\* C19: Box.copy whose source is a local path that does not exist and whose
\* target is a marked box path raises FileNotFoundError, not a direction error,
\* and makes no remote call.
C19_MissingSourceReported ==
  (/\ copy_args # NoCopy
   /\ copy_args.source[1] # "box:"
   /\ ~exists(fs0, copy_args.source)
   /\ copy_args.target[1] = "box:") =>
    /\ calls = <<>>
    /\ pc = "idle" => (outcome.kind = "raise" /\ outcome.err.type = "FileNotFoundError")

\* C20: get_archive without local_path changes nothing on the local
\* filesystem, and when it returns it has made exactly one head_archive call
\* and then one data fetch, and returns a stream holding the fetched bytes
\* together with the result of head_archive.
C20_RawStreamReturned ==
  (args.op = "get_archive" /\ args.local_path = None) =>
    /\ fs = fs0
    /\ pc \in {"idle", "ga_head", "ga_fetch"}
    /\ (pc = "idle" /\ outcome.kind = "return") =>
         /\ Len(calls) = 2
         /\ calls[1].api = "head_archive" /\ calls[1].err = NoErr
         /\ calls[2].api = "get_archive" /\ calls[2].err = NoErr
         /\ outcome.stream = tar_data_bytes
         /\ outcome.stats = calls[1].stats

\* get_archive without local_path has returned a fetched archive and the stats
C20_Witness ==
  /\ args.op = "get_archive"
  /\ args.local_path = None
  /\ pc = "idle"
  /\ outcome.kind = "return"
  /\ outcome.stream = Gzip(TarBytes(<<Entry(N_b, "file", Ramp(MaxLen))>>))
  /\ outcome.stats = "stat-file-42"
  /\ Len(calls) = 2

\* C21: get_archive with local_path fails with EmptyArchive (tarfile.TarError)
\* whenever the fetched archive has no entries, and then writes no file at
\* local_path.
C21_EmptyArchiveRefused ==
  (/\ Downloaded
   /\ TarOpen(tar_data_bytes).ok
   /\ TarOpen(tar_data_bytes).members = <<>>) =>
    /\ pc \in {"ga_extract", "idle"}
    /\ pc = "idle" => outcome = Raise(Err("TarError", "EmptyArchive"))
    /\ fs[args.local_path] = fs0[args.local_path]

\* an archive of no entries has been fetched for a new local file and refused
C21_Witness ==
  /\ Downloaded
  /\ args.local_path = P_out
  /\ tar_data_bytes = TarBytes(<<>>)
  /\ pc = "idle"
  /\ outcome.kind = "raise"
  /\ fs[P_out] = Absent

\* C22: Box.start and Box.stop call the start (stop) API exactly once; only
\* when that call has succeeded and its response validates they issue one box
\* get, and when that returns valid data attrs are the fetched data, so that
\* status is the fetched status; when the start (stop) call raises, the same
\* error reaches the caller, no get is issued and attrs are unchanged.
C22_StartStopThenReload ==
  args.op \in {"start", "stop"} =>
    /\ Len(calls) <= 2
    /\ Len(calls) >= 1 => calls[1].api = args.op
    /\ Len(calls) = 2 => (calls[1].err = NoErr /\ calls[2].api = "get")
    /\ Len(calls) < 2 => attrs = attrs0
    /\ pc = "idle" =>
         /\ Len(calls) >= 1
         /\ calls[1].err # NoErr =>
              (Len(calls) = 1 /\ outcome = Raise(calls[1].err) /\ attrs = attrs0)
         /\ outcome.kind = "return" =>
              /\ Len(calls) = 2
              /\ calls[2].err = NoErr
              /\ attrs.status = calls[2].stats
              /\ attrs \in {model_validate(raw).value : raw \in BoxResponses}
         /\ (Len(calls) = 2 /\ outcome.kind = "raise") => attrs = attrs0

\* a stopped box has been started and its attrs show the fetched status
C22_Witness ==
  /\ args.op = "start"
  /\ pc = "idle"
  /\ outcome.kind = "return"
  /\ attrs0.status = "stopped"
  /\ attrs.status = "running"
  /\ Len(calls) = 2

\* C23: a reload that fails leaves the attributes as they were and the error
\* reaches the caller: Box.reload when box_api.get raises (or returns data
\* that do not validate), File.reload when file_service.head raises.
C23_FailedReloadKeepsAttrs ==
  /\ (args.op = "reload" /\ pc = "idle" /\ outcome.kind = "raise") =>
       /\ attrs = attrs0
       /\ Len(calls) = 1
       /\ calls[1].api = "get"
       /\ calls[1].err # NoErr => outcome = Raise(calls[1].err)
  /\ (args.op = "file_reload" /\ pc = "idle" /\ Len(calls) = 1 /\ calls[1].err # NoErr) =>
       /\ file = file0
       /\ calls[1].api = "head"
       /\ outcome = Raise(calls[1].err)

\* a File that holds metadata has met a head that raised NotFound
C23_Witness ==
  /\ args.op = "file_reload"
  /\ pc = "idle"
  /\ outcome = Raise(Err("NotFound", "remote"))
  /\ file0.attrs.name = "file.txt"
  /\ file = file0

\* C24: FileManager.get and FileManager.exists prefix "/" to a path that does
\* not start with it: the path sent to head, and the path of the File that get
\* returns, start with "/"; a path that starts with "/" is sent unchanged, and
\* normalising the normalised path changes nothing.
C24_PathNormalized ==
  (args.op \in {"files.get", "files.exists"} /\ Len(calls) >= 1) =>
    LET sent == calls[1].path IN
      /\ sent # <<>>
      /\ sent[1] = "/"
      /\ (args.path # <<>> /\ args.path[1] = "/") => sent = args.path
      /\ (args.path = <<>> \/ args.path[1] # "/") => sent = <<"/">> \o args.path
      /\ normalize_path(sent) = sent
      /\ (args.op = "files.get" /\ outcome.kind = "return") => file.path = sent

\* get has returned a File for a relative path
C24_Witness ==
  /\ args.op = "files.get"
  /\ args.path = F_rel
  /\ pc = "idle"
  /\ outcome.kind = "return"
  /\ file.path = F_abs

\* C25: FileManager.exists never raises NotFound or APIError: it answers False
\* when head raises either of them or returns None, True when head returns
\* metadata, and it calls head exactly once.
C25_ExistsNeverRaises ==
  args.op = "files.exists" =>
    /\ Len(calls) <= 1
    /\ pc = "idle" =>
         /\ Len(calls) = 1
         /\ calls[1].api = "head"
         /\ outcome.kind = "return"
         /\ outcome.stats \in {"True", "False"}
         /\ calls[1].err # NoErr => outcome.stats = "False"
         /\ (calls[1].err = NoErr /\ calls[1].stats = "<None>") => outcome.stats = "False"
         /\ (calls[1].err = NoErr /\ calls[1].stats \in {"file.txt", "file_updated.txt"}) =>
              outcome.stats = "True"

\* exists has answered False to a head that raised APIError
C25_Witness ==
  /\ args.op = "files.exists"
  /\ pc = "idle"
  /\ Len(calls) = 1
  /\ calls[1].err = Err("APIError", "remote")
  /\ outcome = Return(NoStream, "False")

C27_NoRetry ==
  /\ \A api \in {"head_archive", "get_archive", "extract_archive"} :
       Cardinality({i \in 1..Len(calls) : calls[i].api = api}) <= 1
  /\ \A i \in 1..Len(calls) :
       /\ i < Len(calls) => calls[i].err = NoErr
       /\ args.op = "get_archive" => calls[i].api \in {"head_archive", "get_archive"}
       /\ args.op = "put_archive" => calls[i].api = "extract_archive"
       /\ args.op = "head_archive" => calls[i].api = "head_archive"
  /\ args.op = "copy" => calls = <<>>
  /\ (pc = "idle" /\ calls # <<>> /\ calls[Len(calls)].err # NoErr) =>
       outcome = Raise(calls[Len(calls)].err)

\* a copy from the box has ended with the failure of the fetch that followed
\* a successful head
C27_Witness ==
  /\ copy_args # NoCopy
  /\ args.op = "get_archive"
  /\ pc = "idle"
  /\ Len(calls) = 2
  /\ calls[1].err = NoErr
  /\ calls[2].err # NoErr
  /\ outcome.kind = "raise"

\* C28: head_archive, get_archive, put_archive and copy never modify the
\* attrs of the Box (id, status, image, labels), whether they succeed or
\* fail: after any sequence of archive calls the attrs are those of before.
C28_ArchiveOpsKeepAttrs ==
  args.op \in {"head_archive", "get_archive", "put_archive", "copy"} =>
    /\ attrs = attrs0
    /\ attrs = BoxData("box-1", "stopped", "ubuntu:latest", "name=test-box")

\* a second archive call has ended, the upload done and the attrs as before
C28_Witness ==
  /\ ncalls = 2
  /\ pc = "idle"
  /\ args.op = "put_archive"
  /\ outcome.kind = "return"
  /\ attrs = attrs0
  /\ attrs.status = "stopped"

\* C29: the id of the Box, by which Boxes are compared and hashed, is not
\* changed by reload, start, stop, run, reclaim or delete, whatever box data
\* the remote returns.
C29_IdUnchanged ==
  args.op \in {"reload", "start", "stop", "run", "reclaim", "delete"} =>
    attrs.id = attrs0.id

\* C30: FileManager.exists and FileManager.get agree on every outcome of the
\* head call: exists answers True exactly when get, given the same outcome,
\* returns a File, and False exactly when get raises.
C30_ExistsAgreesWithGet ==
  (args.op = "files.exists" /\ pc = "idle" /\ Len(calls) = 1) =>
    LET err == calls[1].err
        a == IF err # NoErr THEN NoneStat
             ELSE CHOOSE d \in HeadResults : d.name = calls[1].stats
        got == FileManager_get_outcome(err, a)
    IN /\ outcome.stats = "True" <=> got.kind = "return"
       /\ outcome.stats = "False" <=> got.kind = "raise"

====
